---- MODULE Spec2Model ----
(***************************************************************************)
(* Havenix reservation / unlock workflow.                                  *)
(*                                                                         *)
(* The store is the Postgres schema of supabase/migrations (tables,        *)
(* CHECK and UNIQUE constraints, row level security policies and the two   *)
(* reservation triggers).  The clients are browser sessions running the    *)
(* property detail page (fetchProperty, PaystackButton,                    *)
(* handlePaymentSuccess) and the student dashboard (fetchReservations,     *)
(* requestRefund); the landlord dashboard edits the property row.  Every   *)
(* await of a handler is a step of its own, so that the requests of        *)
(* different clients interleave at the store.                              *)
(***************************************************************************)
EXTENDS Integers, FiniteSets, Sequences, TLC

\* ------------------------------------------------------------------ bounds
MaxRooms == 2
MaxRows == 3
MaxEdits == 1
MaxPrice == 150
MaxRefresh == 2

\* ------------------------------------------------------------- principals
Null == "null"
\* property === null, landlord === null in the page state
NoProperty == [id |-> Null, rooms_available |-> 0, total_rooms |-> 0,
               is_verified |-> FALSE, detailed_location |-> "",
               video_url |-> "", landlord_id |-> Null]
NoLandlord == [id |-> Null, email |-> Null, phone |-> Null]
Students == {"s1", "s2"}
Landlords == {"l1", "l2"}
Users == Students \cup Landlords
Properties == {"p1"}
\* browser sessions
Clients == {"c1", "c2"}

\* profile === null in the auth context
NoProfile == "none"

\* rows of the users table (role, contact fields)
users == [u \in Users |->
            [id |-> u,
             role |-> IF u \in Students THEN "student" ELSE "landlord",
             email |-> "email",
             phone |-> "phone"]]

\* createSampleProperty: rooms_available and total_rooms of the row a
\* signed-in user (here student s1) inserts with landlord_id = user.id
SampleRooms == 3
SampleTotalRooms == 4
SamplePrice == 180000

\* the row createSampleProperty inserts for the signed-in user uid
SampleProperty(uid) ==
  [id |-> "p1", rooms_available |-> SampleRooms,
   total_rooms |-> SampleTotalRooms, is_verified |-> TRUE,
   detailed_location |-> "address", video_url |-> "",
   landlord_id |-> uid]

\* the listings of landlord l1 (seeded, or submitted through the landlord
\* forms and possibly not yet reviewed)
LandlordRows ==
  {[id |-> "p1", rooms_available |-> ra, total_rooms |-> tr,
    is_verified |-> v, detailed_location |-> "address",
    video_url |-> "video", landlord_id |-> "l1"] :
      ra \in 0..MaxRooms, tr \in 1..MaxRooms, v \in BOOLEAN}

\* the property row at the start: a listing of landlord l1 (seeded, or
\* submitted through the landlord forms and possibly not yet reviewed), or
\* the sample property of student s1
InitialRows == LandlordRows \cup {SampleProperty("s1")}

VARIABLES
  properties,      \* properties table: id -> row
  reservations,    \* reservations table: set of rows
  nextId,          \* next reservations.id
  edits,           \* number of landlord edits so far
  user,            \* per client: the signed-in user (useAuth().user.id)
  profile,         \* per client: useAuth().profile.role, or NoProfile
  pc,              \* per client: position in the page's handlers
  property,        \* detail page state: property (row snapshot)
  landlord,        \* detail page state: landlord (contact record)
  isUnlocked,      \* detail page state
  paymentLoading,  \* detail page state
  loading,         \* detail page state
  pageError,       \* detail page state: error is set
  btnLoading,      \* PaystackButton state: loading
  delivered,       \* the payment widget has called back with success
  fresh,           \* handlePaymentSuccess local: fresh?.rooms_available, as a set
  dashPaid,        \* student dashboard: ids listed with payment_status paid
  dashPending,     \* student dashboard: a fetchReservations is in flight
  refundLog,       \* history: what the last requestRefund call was aimed at
  fee,             \* fee calculator: inputs and the value of each call site
  retry,           \* the retry loop in progress (testConnection, ...)
  auth,            \* AuthProvider state, the route and the handler in flight
  hist             \* history of each client's unlock calls (for the claims)

storeVars == <<properties, reservations, nextId, edits, user>>
pageVars == <<profile, pc, property, landlord, isUnlocked, paymentLoading,
              loading, pageError, btnLoading, delivered, fresh>>
\* the student dashboard, and the fee calculator of the forms and pages
dashVars == <<dashPaid, dashPending, refundLog, fee, retry, auth>>
vars == <<properties, reservations, nextId, edits, user, profile, pc, property,
          landlord, isUnlocked, paymentLoading, loading, pageError, btnLoading,
          delivered, fresh, dashPaid, dashPending, refundLog, fee, retry,
          auth, hist>>

\* ---------------------------------------------------------------- schema
\* valid_room_count with the upper bound left out
valid_room_count_NoUpper(ra, tr) == ra >= 0

\* CONSTRAINT valid_room_count
valid_room_count(ra, tr) == ra <= tr /\ ra >= 0

\* the reservations table without its UNIQUE constraint
UniqueOk_Off(rows, s, p) == TRUE

\* UNIQUE(student_id, property_id): may a row for (s, p) be inserted
UniqueOk(rows, s, p) ==
  ~ \E r \in rows : r.student_id = s /\ r.property_id = p

\* policies "Landlords can update own properties" / "manage own properties"
PropUpdatePolicy(uid, prow) == prow.landlord_id = uid

\* policy "Landlords can manage own properties" (FOR ALL), on DELETE
PropDeletePolicy(uid, prow) == prow.landlord_id = uid

\* reservations.property_id REFERENCES properties(id)
ForeignKeyOk(props, p) == props[p].id # Null

\* ON DELETE CASCADE of reservations.property_id: the rows that remain when
\* property p is deleted
CascadeDelete(rows, p) == {r \in rows : r.property_id # p}

\* policy "Landlords can insert properties"
PropInsertPolicy(uid, prow) == uid # Null /\ prow.landlord_id = uid

\* policy "Users can read profiles" (TO authenticated, USING true)
UsersSelectPolicy(uid) == uid # Null

\* policy "Students can update own reservations"
ResUpdatePolicy(uid, r) == r.student_id = uid

\* policy "Students can read reservations"
ResSelectPolicy(uid, r) == r.student_id = uid

\* policy "Students can insert own reservations"
ResInsertPolicy(uid, r) == r.student_id = uid

\* UPDATE properties SET rooms_available = v WHERE id = p, issued by uid.
\* A row the update policy hides is not matched (no error); a new value
\* violating valid_room_count aborts the statement.
UpdateRooms(props, uid, p, v) ==
  IF ~ PropUpdatePolicy(uid, props[p])
    THEN [props |-> props, error |-> FALSE]
    ELSE IF ~ valid_room_count(v, props[p].total_rooms)
      THEN [props |-> props, error |-> TRUE]
      ELSE [props |-> [props EXCEPT ![p].rooms_available = v],
            error |-> FALSE]

\* handle_reservation_insert raising an exception when no room is left
handle_reservation_insert_Strict(props, uid, new) ==
  IF new.payment_status = "paid" /\ new.unlock_granted
    THEN IF props[new.property_id].rooms_available > 0
           THEN UpdateRooms(props, uid, new.property_id,
                            props[new.property_id].rooms_available - 1)
           ELSE [props |-> props, error |-> TRUE]
    ELSE [props |-> props, error |-> FALSE]

\* trigger function handle_reservation_insert (SECURITY INVOKER: its UPDATE
\* runs as the inserting user, under the policies of properties)
handle_reservation_insert(props, uid, new) ==
  IF new.payment_status = "paid" /\ new.unlock_granted
       /\ props[new.property_id].rooms_available > 0
    THEN UpdateRooms(props, uid, new.property_id,
                     props[new.property_id].rooms_available - 1)
    ELSE [props |-> props, error |-> FALSE]

\* handle_reservation_update without the test of OLD.payment_status
handle_reservation_update_NoOld(props, uid, old, new) ==
  IF new.payment_status = "refunded"
    THEN UpdateRooms(props, uid, new.property_id,
                     props[new.property_id].rooms_available + 1)
    ELSE [props |-> props, error |-> FALSE]

\* trigger function handle_reservation_update (SECURITY INVOKER)
handle_reservation_update(props, uid, old, new) ==
  IF old.payment_status = "paid" /\ new.payment_status = "refunded"
    THEN UpdateRooms(props, uid, new.property_id,
                     props[new.property_id].rooms_available + 1)
    ELSE [props |-> props, error |-> FALSE]

\* rpc('decrement_rooms', { property_id }).  No migration defines the
\* function: the call is answered with an error (applied = FALSE), or, where
\* the deployment has the function, with a guarded decrement.
decrement_rooms(props, p, applied) ==
  IF applied /\ props[p].rooms_available > 0
    THEN [props EXCEPT ![p].rooms_available = @ - 1]
    ELSE props

\* .maybeSingle(): data is the row when exactly one row matches (null for
\* none, an error for more)
MaybeSingle(rows) == Cardinality(rows) = 1

\* Math.max(0, n - 1)
MaxZeroDec(n) == IF n - 1 > 0 THEN n - 1 ELSE 0

\* ------------------------------------------------------------------ Init
\* r0: rooms_available stored when the unlock call started; calls: calls
\* of handlePaymentSuccess that returned; clean: nobody else changed the
\* store since; inserted: the call inserted the reservation; seen: the
\* payment_status of the row the page's last reservation check found
\* out: the toast of the call ("already", "success", "error"), or "closed"
\* after the widget was closed; ins0: the insert found rooms_available = 0;
\* updErr: the "Room update error" was logged
NoHist == [r0 |-> -1, calls |-> 0, clean |-> FALSE, inserted |-> FALSE,
           seen |-> "none", out |-> "none", ins0 |-> FALSE,
           updErr |-> FALSE]

\* const maxRetries = 3
maxRetries == 3
\* setTimeout(resolve, 1000 * (i + 1))
BackoffMs == 1000

\* no retry loop is running
NoRetry == [op |-> "none", i |-> 0, attempts |-> 0, delays |-> <<>>,
            out |-> "none"]

\* AuthProvider after initializeAuth found no session: nobody signed in,
\* loading false, no handler in flight; route is the page on screen and
\* effectRefresh counts the refreshAuth calls of the dashboards' effect.
\* call: the AuthProvider function in flight; at: the request it waits
\* for; arg: the account of a signUp / signIn call; from: the dashboard
\* route ProtectedRoute last redirected away from; fetched: the mounted
\* dashboard has started its data fetch
NoAuth == [user |-> Null, profile |-> NoProfile, loading |-> FALSE,
           call |-> "none", at |-> "none", arg |-> Null,
           route |-> "/explore", from |-> "none", fetched |-> FALSE,
           effectRefresh |-> 0]

\* no fee computed yet
NoFee == [price |-> 0, total_rooms |-> 0, unlock |-> -1, listing |-> -1,
          backfill |-> -1]

\* the state of the sessions and of the ledger before anything was done
InitSessions ==
  /\ reservations = {}
  /\ nextId = 1
  /\ edits = 0
  /\ pc = [c \in Clients |-> "unmounted"]
  /\ property = [c \in Clients |-> NoProperty]
  /\ landlord = [c \in Clients |-> NoLandlord]
  /\ isUnlocked = [c \in Clients |-> FALSE]
  /\ paymentLoading = [c \in Clients |-> FALSE]
  /\ loading = [c \in Clients |-> TRUE]
  /\ pageError = [c \in Clients |-> FALSE]
  /\ btnLoading = [c \in Clients |-> FALSE]
  /\ delivered = [c \in Clients |-> FALSE]
  /\ fresh = [c \in Clients |-> {}]
  /\ dashPaid = {}
  /\ dashPending = FALSE
  /\ refundLog = "none"
  /\ retry = NoRetry
  /\ auth = NoAuth
  /\ hist = [c \in Clients |-> NoHist]

\* two student sessions with their profiles loaded
Init ==
  /\ \E row \in InitialRows :
       /\ row.rooms_available <= row.total_rooms
       /\ properties = [p \in Properties |-> row]
  \* the second session is signed in as the same student or as another one
  /\ \E u \in Students : user = [c \in Clients |-> IF c = "c1" THEN "s1" ELSE u]
  /\ profile = [c \in Clients |-> "student"]
  /\ fee = NoFee
  /\ InitSessions

\* as Init, with a listing whose rooms are all free
InitFull ==
  /\ Init
  /\ \A p \in Properties :
       properties[p].rooms_available = properties[p].total_rooms

\* a student session and a session of any visitor: anonymous, a student or a
\* landlord, with the profile loaded or not (fetchProfileWithRetry failed or
\* has not returned); the property is a listing of l1 or does not exist yet
InitView ==
  /\ \E row \in LandlordRows \cup {NoProperty} :
       /\ row.rooms_available <= row.total_rooms
       /\ properties = [p \in Properties |-> row]
  /\ \E u \in Users \cup {Null} :
       user = [c \in Clients |-> IF c = "c1" THEN "s1" ELSE u]
  /\ \E loaded \in BOOLEAN :
       profile = [c \in Clients |->
                    IF c = "c1" THEN "student"
                    ELSE IF user[c] # Null /\ loaded THEN users[user[c]].role
                    ELSE NoProfile]
  /\ fee = NoFee
  /\ InitSessions

\* ------------------------------------------------------- history helpers
\* the history of c becomes own; a change of the store by c ends the
\* "no other actor" condition of every other client's unlock
HistAfter(c, own, changed) ==
  [d \in Clients |->
     IF d = c THEN own
     ELSE IF changed THEN [hist[d] EXCEPT !.clean = FALSE] ELSE hist[d]]

CallDone(h) == [h EXCEPT !.calls = IF @ < 2 THEN @ + 1 ELSE @]

\* ------------------------------------------- PropertyDetailPage: reads
\* the route's property id
IdOf(c) == "p1"

\* fetchProperty applies .eq('is_verified', true) for an anonymous visitor
\* and for a loaded student profile
VerifiedFilter(c) == user[c] = Null \/ profile[c] = "student"

\* fetchProperty from setLoading(true) to the end of the landlord query:
\* refreshAuth() when the profile is missing (the handler goes on with the
\* profile of its render, the context has the fetched one afterwards, or
\* still none when the fetch failed), the properties query (select '*'),
\* then the users query, which returns no row to an anonymous visitor.
\* users is never written, so the requests are one step.  next is where
\* the handler goes on when the property is found.
fetchProperty(c, next) ==
  LET row == properties[IdOf(c)]
      found == row.id # Null /\ ((~ VerifiedFilter(c)) \/ row.is_verified)
  IN
  /\ \E ok \in BOOLEAN :
       profile' = [profile EXCEPT ![c] =
                     IF user[c] # Null /\ @ = NoProfile /\ ok
                       THEN users[user[c]].role ELSE @]
  /\ IF found
       THEN /\ property' = [property EXCEPT ![c] = row]
            /\ landlord' = [landlord EXCEPT ![c] =
                  IF UsersSelectPolicy(user[c])
                    THEN [id |-> row.landlord_id,
                          email |-> users[row.landlord_id].email,
                          phone |-> users[row.landlord_id].phone]
                    ELSE @]
            /\ pc' = [pc EXCEPT ![c] = next]
            /\ loading' = [loading EXCEPT ![c] = TRUE]
            /\ pageError' = [pageError EXCEPT ![c] = FALSE]
            /\ UNCHANGED <<paymentLoading, hist>>
       ELSE /\ pageError' = [pageError EXCEPT ![c] = TRUE]
            /\ loading' = [loading EXCEPT ![c] = FALSE]
            /\ pc' = [pc EXCEPT ![c] = "ready"]
            /\ paymentLoading' = [paymentLoading EXCEPT ![c] = FALSE]
            /\ hist' = [hist EXCEPT ![c] =
                  IF pc[c] = "hp_fp_prop" THEN CallDone(@) ELSE @]
            /\ UNCHANGED <<property, landlord>>

\* useEffect([id, user]) on mount -> fetchProperty
Mount(c) ==
  /\ pc[c] = "unmounted"
  /\ fetchProperty(c, "fp_unlock")
  /\ UNCHANGED <<storeVars, dashVars, isUnlocked, btnLoading, delivered,
                 fresh>>

\* await fetchProperty() at the end of handlePaymentSuccess
HpFetchProperty(c) ==
  /\ pc[c] = "hp_fp_prop"
  /\ fetchProperty(c, "hp_fp_unlock")
  /\ UNCHANGED <<storeVars, dashVars, isUnlocked, btnLoading, delivered,
                 fresh>>

\* the reservation check gated on payment_status = 'paid' as well
UnlockedRows_PaidOnly(uid, p) ==
  {r \in reservations : /\ ResSelectPolicy(uid, r)
                        /\ r.student_id = uid
                        /\ r.property_id = p
                        /\ r.unlock_granted
                        /\ r.payment_status = "paid"}

\* the reservation check of fetchProperty: rows of the signed-in student
\* for this property with unlock_granted = true
UnlockedRows(uid, p) ==
  {r \in reservations : /\ ResSelectPolicy(uid, r)
                        /\ r.student_id = uid
                        /\ r.property_id = p
                        /\ r.unlock_granted}

FpUnlock(c) ==
  /\ pc[c] \in {"fp_unlock", "hp_fp_unlock"}
  /\ isUnlocked' = [isUnlocked EXCEPT ![c] =
        IF user[c] = Null \/ Cardinality(UnlockedRows(user[c], IdOf(c))) > 1
          THEN @
          ELSE MaybeSingle(UnlockedRows(user[c], IdOf(c)))]
  /\ loading' = [loading EXCEPT ![c] = FALSE]
  /\ pc' = [pc EXCEPT ![c] = "ready"]
  /\ paymentLoading' = [paymentLoading EXCEPT ![c] = FALSE]
  /\ LET rows == UnlockedRows(user[c], IdOf(c))
         st == IF rows = {} THEN "none"
               ELSE (CHOOSE r \in rows : TRUE).payment_status
         h == [hist[c] EXCEPT !.seen = st]
     IN hist' = [hist EXCEPT ![c] =
                   IF pc[c] = "hp_fp_unlock" THEN CallDone(h) ELSE h]
  /\ UNCHANGED <<storeVars, dashVars, profile, property, landlord, pageError,
                 btnLoading, delivered, fresh>>

\* the page is left or reloaded: the component state is gone
Unmount(c) ==
  /\ pc[c] = "ready"
  /\ pc' = [pc EXCEPT ![c] = "unmounted"]
  /\ property' = [property EXCEPT ![c] = NoProperty]
  /\ landlord' = [landlord EXCEPT ![c] = NoLandlord]
  /\ isUnlocked' = [isUnlocked EXCEPT ![c] = FALSE]
  /\ loading' = [loading EXCEPT ![c] = TRUE]
  /\ pageError' = [pageError EXCEPT ![c] = FALSE]
  /\ delivered' = [delivered EXCEPT ![c] = FALSE]
  /\ hist' = [hist EXCEPT ![c] = NoHist]
  /\ UNCHANGED <<storeVars, dashVars, profile, paymentLoading, btnLoading, fresh>>

\* the session ends while the page is on screen (onAuthStateChange without
\* a session, or signOut before its request has returned): setUser(null)
\* and setProfile(null), and useEffect([id, user]) starts fetchProperty
\* (setLoading(true), setError(null)); the component state is kept
SignOut(c) ==
  /\ pc[c] = "ready"
  /\ user[c] # Null
  /\ user' = [user EXCEPT ![c] = Null]
  /\ profile' = [profile EXCEPT ![c] = NoProfile]
  /\ loading' = [loading EXCEPT ![c] = TRUE]
  /\ pageError' = [pageError EXCEPT ![c] = FALSE]
  /\ pc' = [pc EXCEPT ![c] = "refetch"]
  /\ UNCHANGED <<properties, reservations, nextId, edits, dashVars, property,
                 landlord, isUnlocked, paymentLoading, btnLoading, delivered,
                 fresh, hist>>

\* the fetchProperty started by the effect after the user changed
Refetch(c) ==
  /\ pc[c] = "refetch"
  /\ fetchProperty(c, "fp_unlock")
  /\ UNCHANGED <<storeVars, dashVars, isUnlocked, btnLoading, delivered,
                 fresh>>

\* ------------------------------------------ PropertyDetailPage: render
\* the detail view is on screen (neither the spinner nor the error view)
Rendered(c) ==
  pc[c] # "unmounted" /\ ~ loading[c] /\ ~ pageError[c] /\ property[c].id # Null

\* sidebar branch 2: the unlock button
ButtonVisible(c) ==
  /\ Rendered(c)
  /\ property[c].rooms_available # 0
  /\ ~ isUnlocked[c]
  /\ user[c] # Null
  /\ profile[c] = "student"

\* sidebar branch 3: landlord email and phone
ContactShown(c) ==
  /\ Rendered(c)
  /\ property[c].rooms_available # 0
  /\ ~ (~ isUnlocked[c] /\ user[c] # Null /\ profile[c] = "student")
  /\ isUnlocked[c]
  /\ landlord[c].id # Null

\* "Detailed Location (Unlocked)" block
DetailedLocationShown(c) ==
  /\ Rendered(c)
  /\ isUnlocked[c]
  /\ property[c].detailed_location # ""

\* the video of the gallery and the "Video Tour" block
VideoShown(c) ==
  /\ Rendered(c)
  /\ property[c].video_url # ""
  /\ isUnlocked[c]

\* ------------------------------------------------------ PaystackButton
\* handlePayment calling onSuccess at the click, before the widget reports
OpenWidget_Optimistic(c) ==
  /\ pc[c] = "ready"
  /\ ButtonVisible(c)
  /\ ~ (paymentLoading[c] \/ btnLoading[c])
  /\ paymentLoading' = [paymentLoading EXCEPT ![c] = TRUE]
  /\ pc' = [pc EXCEPT ![c] = "hp_insert"]
  /\ UNCHANGED <<storeVars, dashVars, profile, property, landlord, isUnlocked,
                 btnLoading, loading, pageError, delivered, fresh, hist>>

\* handlePayment: the button is clicked and the widget opens
OpenWidget(c) ==
  /\ pc[c] = "ready"
  /\ ButtonVisible(c)
  /\ ~ (paymentLoading[c] \/ btnLoading[c])
  /\ btnLoading' = [btnLoading EXCEPT ![c] = TRUE]
  /\ pc' = [pc EXCEPT ![c] = "widget"]
  /\ UNCHANGED <<storeVars, dashVars, profile, property, landlord, isUnlocked,
                 paymentLoading, loading, pageError, delivered, fresh, hist>>

\* an onClose that records the abandoned attempt as a pending reservation
WidgetClose_Pending(c) ==
  /\ pc[c] = "widget"
  /\ nextId <= MaxRows
  /\ reservations' = reservations \cup
       {[id |-> nextId, student_id |-> user[c],
         property_id |-> property[c].id, payment_status |-> "pending",
         unlock_granted |-> FALSE]}
  /\ nextId' = nextId + 1
  /\ btnLoading' = [btnLoading EXCEPT ![c] = FALSE]
  /\ paymentLoading' = [paymentLoading EXCEPT ![c] = FALSE]
  /\ pc' = [pc EXCEPT ![c] = "ready"]
  /\ hist' = [hist EXCEPT ![c].out = "closed"]
  /\ UNCHANGED <<properties, edits, user, dashVars, profile, property,
                 landlord, isUnlocked, loading, pageError, delivered, fresh>>

\* PaystackPop onClose, and the page's onClose prop
WidgetClose(c) ==
  /\ pc[c] = "widget"
  /\ btnLoading' = [btnLoading EXCEPT ![c] = FALSE]
  /\ paymentLoading' = [paymentLoading EXCEPT ![c] = FALSE]
  /\ pc' = [pc EXCEPT ![c] = "ready"]
  /\ hist' = [hist EXCEPT ![c].out = "closed"]
  /\ UNCHANGED <<storeVars, dashVars, profile, property, landlord, isUnlocked,
                 loading, pageError, delivered, fresh>>

\* ------------------------------------------------ handlePaymentSuccess
\* rows the .select('id') of the existence check can see
ExistingRows(uid, p) ==
  {r \in reservations : /\ ResSelectPolicy(uid, r)
                        /\ r.student_id = uid
                        /\ r.property_id = p}

\* the finally block, after a return or a caught error
Finally(c) ==
  /\ paymentLoading' = [paymentLoading EXCEPT ![c] = FALSE]
  /\ pc' = [pc EXCEPT ![c] = "ready"]

\* handlePaymentSuccess without its setPaymentLoading(true)
HpExisting_NoLoading(c, h) ==
  /\ user[c] # Null
  /\ property[c].id # Null
  /\ IF MaybeSingle(ExistingRows(user[c], property[c].id))
       THEN /\ isUnlocked' = [isUnlocked EXCEPT ![c] = TRUE]
            /\ Finally(c)
            /\ hist' = [hist EXCEPT ![c] =
                          CallDone([h EXCEPT !.out = "already"])]
       ELSE /\ pc' = [pc EXCEPT ![c] = "hp_insert"]
            /\ hist' = [hist EXCEPT ![c] = h]
            /\ UNCHANGED <<isUnlocked, paymentLoading>>

\* handlePaymentSuccess from its guard to the end of the "Check for
\* existing reservation" query; h is the history of the call
HpExisting(c, h) ==
  /\ user[c] # Null
  /\ property[c].id # Null
  /\ IF MaybeSingle(ExistingRows(user[c], property[c].id))
       THEN /\ isUnlocked' = [isUnlocked EXCEPT ![c] = TRUE]
            /\ Finally(c)
            /\ hist' = [hist EXCEPT ![c] =
                          CallDone([h EXCEPT !.out = "already"])]
       ELSE /\ pc' = [pc EXCEPT ![c] = "hp_insert"]
            /\ paymentLoading' = [paymentLoading EXCEPT ![c] = TRUE]
            /\ hist' = [hist EXCEPT ![c] = h]
            /\ UNCHANGED isUnlocked

\* PaystackPop callback -> onSuccess = handlePaymentSuccess
PaymentSuccess(c) ==
  /\ pc[c] = "widget"
  /\ btnLoading' = [btnLoading EXCEPT ![c] = FALSE]
  /\ delivered' = [delivered EXCEPT ![c] = TRUE]
  /\ HpExisting(c, [r0 |-> properties[property[c].id].rooms_available,
                    calls |-> 0, clean |-> TRUE, inserted |-> FALSE,
                    seen |-> hist[c].seen, out |-> "none",
                    ins0 |-> FALSE, updErr |-> FALSE])
  /\ UNCHANGED <<storeVars, dashVars, profile, property, landlord, loading,
                 pageError, fresh>>

\* the widget repeats its success callback after the first call returned
DuplicateCallback(c) ==
  /\ pc[c] = "ready"
  /\ delivered[c]
  /\ HpExisting(c, hist[c])
  /\ UNCHANGED <<storeVars, dashVars, profile, property, landlord, loading,
                 pageError, btnLoading, delivered, fresh>>

\* the row handlePaymentSuccess inserts
NewReservation(c) ==
  [id |-> nextId,
   student_id |-> user[c],
   property_id |-> property[c].id,
   payment_status |-> "paid",
   unlock_granted |-> TRUE]

\* "Create reservation record": the insert, its UNIQUE constraint and the
\* AFTER INSERT trigger are one statement; a rejected insert is thrown to
\* the catch block
HpInsert(c) ==
  /\ pc[c] = "hp_insert"
  /\ LET new == NewReservation(c)
         trg == handle_reservation_insert(properties, user[c], new)
         ok == /\ ResInsertPolicy(user[c], new)
               /\ ForeignKeyOk(properties, new.property_id)
               /\ UniqueOk(reservations, new.student_id, new.property_id)
               /\ ~ trg.error
     IN IF ok
          THEN /\ nextId <= MaxRows
               /\ reservations' = reservations \cup {new}
               /\ nextId' = nextId + 1
               /\ properties' = trg.props
               /\ pc' = [pc EXCEPT ![c] = "hp_update1"]
               /\ hist' = HistAfter(c,
                    [hist[c] EXCEPT
                       !.inserted = TRUE,
                       !.ins0 = (properties[new.property_id].rooms_available
                                   = 0)],
                    TRUE)
               /\ UNCHANGED paymentLoading
          ELSE /\ Finally(c)
               /\ hist' = [hist EXCEPT ![c] =
                             CallDone([@ EXCEPT !.out = "error"])]
               /\ UNCHANGED <<properties, reservations, nextId>>
  /\ UNCHANGED <<edits, user, dashVars, profile, property, landlord, isUnlocked, loading,
                 pageError, btnLoading, delivered, fresh>>

\* "Reduce available rooms by 1": update from the page's snapshot; an
\* update error is logged and the handler goes on
HpUpdate1(c) ==
  /\ pc[c] = "hp_update1"
  /\ LET upd == UpdateRooms(properties, user[c], property[c].id,
                            MaxZeroDec(property[c].rooms_available))
     IN /\ properties' = upd.props
        /\ hist' = HistAfter(c, [hist[c] EXCEPT !.out = "success",
                                                !.updErr = upd.error],
                             upd.props # properties)
  /\ isUnlocked' = [isUnlocked EXCEPT ![c] = TRUE]
  /\ pc' = [pc EXCEPT ![c] = "hp_rpc"]
  /\ UNCHANGED <<reservations, nextId, edits, user, dashVars, profile, property, landlord,
                 paymentLoading, loading, pageError, btnLoading, delivered,
                 fresh>>

\* await supabase.rpc('decrement_rooms', ...): the response is not looked at
HpRpc(c) ==
  /\ pc[c] = "hp_rpc"
  /\ \E applied \in BOOLEAN :
       LET props == decrement_rooms(properties, property[c].id, applied)
       IN /\ properties' = props
          /\ hist' = HistAfter(c, hist[c], props # properties)
  /\ pc' = [pc EXCEPT ![c] = "hp_fresh"]
  /\ UNCHANGED <<reservations, nextId, edits, user, dashVars, profile, property, landlord,
                 isUnlocked, paymentLoading, loading, pageError, btnLoading,
                 delivered, fresh>>

\* the fresh select of rooms_available (.single(): no data when the row
\* is gone)
HpFresh(c) ==
  /\ pc[c] = "hp_fresh"
  /\ fresh' = [fresh EXCEPT ![c] =
                IF properties[property[c].id].id # Null
                  THEN {properties[property[c].id].rooms_available}
                  ELSE {}]
  /\ pc' = [pc EXCEPT ![c] = "hp_update2"]
  /\ UNCHANGED <<storeVars, dashVars, profile, property, landlord, isUnlocked,
                 paymentLoading, loading, pageError, btnLoading, delivered,
                 hist>>

\* the second update, from the fresh value, then fetchProperty up to its
\* first request
HpUpdate2(c) ==
  /\ pc[c] = "hp_update2"
  /\ LET newRooms == MaxZeroDec(IF fresh[c] # {}
                                  THEN CHOOSE n \in fresh[c] : TRUE
                                  ELSE property[c].rooms_available)
         upd == UpdateRooms(properties, user[c], property[c].id, newRooms)
     IN /\ properties' = upd.props
        /\ hist' = HistAfter(c, hist[c], upd.props # properties)
  /\ fresh' = [fresh EXCEPT ![c] = {}]
  /\ pc' = [pc EXCEPT ![c] = "hp_fp_prop"]
  /\ UNCHANGED <<loading, pageError>>
  /\ UNCHANGED <<reservations, nextId, edits, user, dashVars, profile, property,
                 landlord, isUnlocked, paymentLoading, btnLoading, delivered>>

\* ------------------------------------------------------------ routing
\* a ProtectedRoute that tests the role only once a profile is loaded
ProtectedRoute_ProfileOptional(uid, prof, role) ==
  uid # Null /\ (prof = NoProfile \/ prof = role)

\* ProtectedRoute with a role: the children are rendered for a signed-in
\* user whose profile has that role
ProtectedRoute(uid, prof, role) == uid # Null /\ prof = role

\* the routes behind ProtectedRoute and their role
Dashboards == {"/dashboard/student", "/dashboard/landlord"}
RoleOf(route) == IF route = "/dashboard/student" THEN "student" ELSE "landlord"
Routes == Dashboards \cup {"/", "/explore", "/auth"}

\* the dashboard component is rendered (not the spinner, not a Navigate)
DashboardMounted(a) ==
  /\ a.route \in Dashboards
  /\ ~ a.loading
  /\ ProtectedRoute(a.user, a.profile, RoleOf(a.route))

\* the render that follows a change of the auth context or of the route:
\* ProtectedRoute shows the spinner while loading, navigates to /auth
\* without a user and to /explore when the profile's role is not the
\* route's, else renders the dashboard
Render(a) ==
  IF a.route \notin Dashboards THEN [a EXCEPT !.fetched = FALSE]
  ELSE IF a.loading THEN [a EXCEPT !.fetched = FALSE]
  ELSE IF a.user = Null
    THEN [a EXCEPT !.route = "/auth", !.from = a.route, !.fetched = FALSE]
  ELSE IF ~ ProtectedRoute(a.user, a.profile, RoleOf(a.route))
    THEN [a EXCEPT !.route = "/explore", !.from = a.route,
                   !.fetched = FALSE]
  ELSE a

\* ---------------------------------------------------- StudentDashboard
\* the dashboard session d is a browser tab of its own; its signed-in
\* student is DashUser
DashUser == "s1"

\* rows fetchReservations lists with the Request Refund button:
\* the student's own rows with payment_status = 'paid'
PaidListed(uid) ==
  {r.id : r \in {x \in reservations : /\ ResSelectPolicy(uid, x)
                                      /\ x.student_id = uid
                                      /\ x.payment_status = "paid"}}

\* fetchReservations (on mount, and after a successful refund)
fetchReservations ==
  /\ ProtectedRoute(DashUser, users[DashUser].role, "student")
  /\ dashPaid' = PaidListed(DashUser)
  /\ dashPending' = FALSE
  /\ dashPending \/ dashPaid' # dashPaid
  /\ refundLog' = "none"
  /\ UNCHANGED <<storeVars, pageVars, fee, retry, auth, hist>>

\* UPDATE reservations SET payment_status = 'refunded' WHERE id = rid,
\* issued by uid, with the AFTER UPDATE trigger: one statement, aborted as
\* a whole when the trigger's update fails
RefundStatement(uid, rid) ==
  LET hit == {r \in reservations : r.id = rid /\ ResUpdatePolicy(uid, r)}
  IN IF hit = {}
       THEN [props |-> properties, rows |-> reservations, error |-> FALSE]
       ELSE LET old == CHOOSE r \in hit : TRUE
                new == [old EXCEPT !.payment_status = "refunded"]
                trg == handle_reservation_update(properties, uid, old, new)
            IN IF trg.error
                 THEN [props |-> properties, rows |-> reservations,
                       error |-> TRUE]
                 ELSE [props |-> trg.props,
                       rows |-> (reservations \ {old}) \cup {new},
                       error |-> FALSE]

\* what a requestRefund(rid) by uid is aimed at
RefundKind(uid, rid) ==
  IF \E r \in reservations : r.id = rid /\ r.student_id # uid
    THEN "foreign"
    ELSE IF \E r \in reservations : r.id = rid /\ r.payment_status = "paid"
      THEN "paid"
      ELSE "stale"

\* requestRefund(reservationId): on success fetchReservations is started
requestRefund(rid) ==
  LET res == RefundStatement(DashUser, rid)
      changed == res.props # properties \/ res.rows # reservations
  IN /\ ProtectedRoute(DashUser, users[DashUser].role, "student")
     /\ properties' = res.props
     /\ reservations' = res.rows
     /\ dashPending' = (IF res.error THEN dashPending ELSE TRUE)
     /\ refundLog' = RefundKind(DashUser, rid)
     /\ hist' = [d \in Clients |->
                   IF changed THEN [hist[d] EXCEPT !.clean = FALSE]
                   ELSE hist[d]]
     /\ UNCHANGED <<nextId, edits, user, pageVars, dashPaid, fee, retry,
                    auth>>

\* the Request Refund button of a listed paid reservation
RequestRefund == \E rid \in dashPaid : requestRefund(rid)

\* requestRefund called with the id of another student's reservation
RequestRefundForeign ==
  \E r \in reservations :
    /\ r.student_id # DashUser
    /\ requestRefund(r.id)

\* ---------------------------------------------------- LandlordDashboard
\* handleSubmitProperty / MultiStepPropertyForm.handleSubmit on an edited
\* property: UPDATE properties SET rooms_available, total_rooms = form
\* values, by the signed-in landlord
LandlordEdit(u, ra, tr) ==
  /\ ProtectedRoute(u, users[u].role, "landlord")
  /\ edits < MaxEdits
  /\ edits' = edits + 1
  /\ PropUpdatePolicy(u, properties["p1"])
  /\ valid_room_count(ra, tr)
  /\ properties' = [properties EXCEPT !["p1"].rooms_available = ra,
                                      !["p1"].total_rooms = tr]
  /\ properties' # properties
  /\ hist' = [d \in Clients |-> [hist[d] EXCEPT !.clean = FALSE]]
  /\ UNCHANGED <<reservations, nextId, user, pageVars, dashVars>>

\* MultiStepPropertyForm.handleSubmit (insert): a new listing of landlord
\* u with the form's room counts and is_verified: false
LandlordCreate(u, ra, tr) ==
  LET new == [id |-> "p1", rooms_available |-> ra, total_rooms |-> tr,
              is_verified |-> FALSE, detailed_location |-> "address",
              video_url |-> "video", landlord_id |-> u]
  IN /\ ProtectedRoute(u, users[u].role, "landlord")
     /\ edits < MaxEdits
     /\ edits' = edits + 1
     /\ properties["p1"].id = Null
     /\ PropInsertPolicy(u, new)
     /\ valid_room_count(ra, tr)
     /\ properties' = [properties EXCEPT !["p1"] = new]
     /\ hist' = [d \in Clients |-> [hist[d] EXCEPT !.clean = FALSE]]
     /\ UNCHANGED <<reservations, nextId, user, pageVars, dashVars>>

\* handleDeleteProperty: DELETE FROM properties WHERE id = p by the
\* signed-in landlord; the reservations of the property go with it
handleDeleteProperty(u) ==
  /\ ProtectedRoute(u, users[u].role, "landlord")
  /\ edits < MaxEdits
  /\ edits' = edits + 1
  /\ properties["p1"].id # Null
  /\ PropDeletePolicy(u, properties["p1"])
  /\ properties' = [properties EXCEPT !["p1"] = NoProperty]
  /\ reservations' = CascadeDelete(reservations, "p1")
  /\ hist' = [d \in Clients |-> [hist[d] EXCEPT !.clean = FALSE]]
  /\ UNCHANGED <<nextId, user, pageVars, dashVars>>

\* ---------------------------------------------------------- ExplorePage
\* createSampleProperty: the button of the notice shown to a signed-in
\* user while no property is listed; the row is inserted with
\* landlord_id = user.id and is_verified = true
CreateSampleProperty(c) ==
  /\ pc[c] = "unmounted"
  /\ user[c] # Null
  /\ properties["p1"].id = Null
  /\ PropInsertPolicy(user[c], SampleProperty(user[c]))
  /\ properties' = [properties EXCEPT !["p1"] = SampleProperty(user[c])]
  /\ hist' = HistAfter(c, hist[c], TRUE)
  /\ UNCHANGED <<reservations, nextId, edits, user, pageVars, dashVars>>

\* ------------------------------------------------------------ retries
\* the loops of testConnection, getSessionWithRetry (initializeAuth) and
\* fetchProfileWithRetry
RetryOps == {"testConnection", "getSessionWithRetry", "fetchProfileWithRetry"}

\* what one request of the loop can come back with: data, an error (or a
\* thrown exception), and for the profile query PGRST116 (no row)
Responses(op) ==
  IF op = "fetchProfileWithRetry" THEN {"ok", "notfound", "error"}
  ELSE {"ok", "error"}

\* a loop body that waits 1000 ms after every failed attempt
RetryAttempt_FixedDelay(r, resp) ==
  IF resp = "ok"
    THEN [r EXCEPT !.attempts = @ + 1, !.out = "success"]
  ELSE IF resp = "notfound"
    THEN [r EXCEPT !.attempts = @ + 1, !.out = "notfound"]
  ELSE IF r.i = maxRetries - 1
    THEN [r EXCEPT !.attempts = @ + 1, !.out = "failure"]
  ELSE [r EXCEPT !.attempts = @ + 1, !.i = @ + 1,
                 !.delays = Append(@, BackoffMs)]

\* one pass of the loop body for (let i = 0; i < maxRetries; i++): the
\* request, then return on data (or on PGRST116), give up when
\* i === maxRetries - 1, else wait 1000 * (i + 1) ms and go on
RetryAttempt(r, resp) ==
  IF resp = "ok"
    THEN [r EXCEPT !.attempts = @ + 1, !.out = "success"]
  ELSE IF resp = "notfound"
    THEN [r EXCEPT !.attempts = @ + 1, !.out = "notfound"]
  ELSE IF r.i = maxRetries - 1
    THEN [r EXCEPT !.attempts = @ + 1, !.out = "failure"]
  ELSE [r EXCEPT !.attempts = @ + 1, !.i = @ + 1,
                 !.delays = Append(@, BackoffMs * (r.i + 1))]

\* the loop is entered
RetryStart(op) == [NoRetry EXCEPT !.op = op, !.out = "running"]

\* a caller invokes one of the three functions
StartRetry(op) ==
  /\ retry.op = "none"
  /\ retry' = RetryStart(op)
  /\ UNCHANGED <<storeVars, pageVars, dashPaid, dashPending, refundLog, fee,
                 auth, hist>>

\* the pending request of the loop is answered
RetryStep ==
  /\ retry.out = "running"
  /\ retry.i < maxRetries
  /\ \E resp \in Responses(retry.op) : retry' = RetryAttempt(retry, resp)
  /\ UNCHANGED <<storeVars, pageVars, dashPaid, dashPending, refundLog, fee,
                 auth, hist>>

\* the function has returned (or thrown) to its caller
RetryReturn ==
  /\ retry.out \in {"success", "notfound", "failure"}
  /\ retry' = NoRetry
  /\ UNCHANGED <<storeVars, pageVars, dashPaid, dashPending, refundLog, fee,
                 auth, hist>>

\* ---------------------------------------------------------- AuthProvider
AuthFrame ==
  UNCHANGED <<storeVars, pageVars, dashPaid, dashPending, refundLog, fee,
              hist>>

Accounts == {"s1", "l1"}

\* a link or the address bar
Visit(r) ==
  /\ r # auth.route
  /\ auth' = Render([auth EXCEPT !.route = r, !.from = "none"])
  /\ UNCHANGED retry
  /\ AuthFrame

\* the auth routing effect of StudentDashboard / LandlordDashboard, run
\* when the component is mounted
DashboardEffect ==
  /\ DashboardMounted(auth)
  /\ auth.call = "none"
  /\ ~ auth.fetched
  /\ IF auth.loading THEN UNCHANGED auth
     ELSE IF auth.user = Null
       THEN auth' = Render([auth EXCEPT !.route = "/auth"])
     ELSE IF auth.profile # NoProfile /\ auth.profile # RoleOf(auth.route)
       THEN auth' = Render([auth EXCEPT !.route = "/explore"])
     ELSE IF auth.profile = NoProfile
       THEN /\ auth.effectRefresh < MaxRefresh
            /\ auth' = Render([auth EXCEPT !.effectRefresh = @ + 1,
                                           !.loading = TRUE,
                                           !.call = "refreshAuth",
                                           !.at = "idp"])
     ELSE auth' = [auth EXCEPT !.fetched = TRUE]
  /\ UNCHANGED retry
  /\ AuthFrame

\* refreshAuth called by fetchProperty of the property page (user set,
\* profile missing): setLoading(true), supabase.auth.refreshSession()
CallRefreshAuth ==
  /\ auth.call = "none"
  /\ auth.user # Null
  /\ auth.profile = NoProfile
  /\ auth.route \notin Dashboards
  /\ auth' = Render([auth EXCEPT !.loading = TRUE, !.call = "refreshAuth",
                                 !.at = "idp"])
  /\ UNCHANGED retry
  /\ AuthFrame

\* refreshSession has answered: an error (catch: setLoading(false)), a
\* session with a user (fetchProfileWithRetry), or no session and no error
\* (the if is skipped and the function returns)
RefreshSessionReturns ==
  /\ auth.call = "refreshAuth"
  /\ auth.at = "idp"
  /\ \E out \in {"error", "user", "nosession"} :
       IF out = "error"
         THEN /\ auth' = Render([auth EXCEPT !.loading = FALSE,
                                             !.call = "none", !.at = "none"])
              /\ UNCHANGED retry
       ELSE IF out = "user"
         THEN /\ auth' = [auth EXCEPT !.at = "profile"]
              /\ retry' = RetryStart("fetchProfileWithRetry")
       ELSE /\ auth' = Render([auth EXCEPT !.call = "none", !.at = "none"])
            /\ UNCHANGED retry
  /\ AuthFrame

\* a request of fetchProfileWithRetry is answered; at its end setProfile
\* and setLoading(false), and the calling function returns
FetchProfileStep ==
  /\ auth.at = "profile"
  /\ retry.out = "running"
  /\ retry.i < maxRetries
  /\ \E resp \in Responses(retry.op) :
       LET r == RetryAttempt(retry, resp)
       IN IF r.out = "running"
            THEN /\ retry' = r
                 /\ UNCHANGED auth
            ELSE /\ retry' = NoRetry
                 /\ auth' = Render([auth EXCEPT
                       !.profile = IF r.out = "success"
                                     THEN users[auth.user].role
                                     ELSE NoProfile,
                       !.loading = FALSE,
                       !.call = "none", !.at = "none", !.arg = Null])
  /\ AuthFrame

\* signUp: setLoading(true), supabase.auth.signUp
CallSignUp(u) ==
  /\ auth.call = "none"
  /\ auth.user = Null
  /\ auth' = Render([auth EXCEPT !.loading = TRUE, !.call = "signUp",
                                 !.at = "idp", !.arg = u])
  /\ UNCHANGED retry
  /\ AuthFrame

\* auth.signUp has answered: an error (thrown, setLoading(false)), a user
\* (the profile row is inserted next), or neither (the function returns)
SignUpReturns ==
  /\ auth.call = "signUp"
  /\ auth.at = "idp"
  /\ \E out \in {"error", "user", "nouser"} :
       IF out = "error"
         THEN auth' = Render([auth EXCEPT !.loading = FALSE, !.call = "none",
                                         !.at = "none", !.arg = Null])
       ELSE IF out = "user"
         THEN auth' = [auth EXCEPT !.at = "insert"]
       ELSE auth' = Render([auth EXCEPT !.call = "none", !.at = "none",
                                       !.arg = Null])
  /\ UNCHANGED retry
  /\ AuthFrame

\* the insert of the users row has answered: profileError is thrown, or
\* the new profile is fetched (the listener has set the user by then)
ProfileInsertReturns ==
  /\ auth.call = "signUp"
  /\ auth.at = "insert"
  /\ \E ok \in BOOLEAN :
       IF ok
         THEN /\ auth' = Render([auth EXCEPT !.user = auth.arg,
                                             !.at = "profile"])
              /\ retry' = RetryStart("fetchProfileWithRetry")
         ELSE /\ auth' = Render([auth EXCEPT !.loading = FALSE,
                                             !.call = "none", !.at = "none",
                                             !.arg = Null])
              /\ UNCHANGED retry
  /\ AuthFrame

\* signIn: setLoading(true), supabase.auth.signInWithPassword
CallSignIn(u) ==
  /\ auth.call = "none"
  /\ auth.user = Null
  /\ auth' = Render([auth EXCEPT !.loading = TRUE, !.call = "signIn",
                                 !.at = "idp", !.arg = u])
  /\ UNCHANGED retry
  /\ AuthFrame

\* signInWithPassword has answered: an error (setLoading(false), thrown),
\* or success: signIn returns and the onAuthStateChange listener sets the
\* user and fetches the profile
SignInReturns ==
  /\ auth.call = "signIn"
  /\ auth.at = "idp"
  /\ \E ok \in BOOLEAN :
       IF ok
         THEN /\ auth' = Render([auth EXCEPT !.user = auth.arg,
                                             !.call = "listener",
                                             !.at = "profile"])
              /\ retry' = RetryStart("fetchProfileWithRetry")
         ELSE /\ auth' = Render([auth EXCEPT !.loading = FALSE,
                                             !.call = "none", !.at = "none",
                                             !.arg = Null])
              /\ UNCHANGED retry
  /\ AuthFrame

\* signOut: setLoading(true), setUser(null), setProfile(null),
\* supabase.auth.signOut()
CallSignOut ==
  /\ auth.call = "none"
  /\ auth.user # Null
  /\ auth' = Render([auth EXCEPT !.loading = TRUE, !.user = Null,
                                 !.profile = NoProfile, !.call = "signOut",
                                 !.at = "idp"])
  /\ UNCHANGED retry
  /\ AuthFrame

\* auth.signOut has answered: setLoading(false) on both paths; after a
\* success the navigation bar goes to /
SignOutReturns ==
  /\ auth.call = "signOut"
  /\ auth.at = "idp"
  /\ \E ok \in BOOLEAN :
       auth' = Render([auth EXCEPT !.loading = FALSE, !.call = "none",
                                  !.at = "none",
                                  !.route = IF ok THEN "/" ELSE @])
  /\ UNCHANGED retry
  /\ AuthFrame

\* onAuthStateChange for a signed-in user (token refreshed): setUser and
\* fetchProfileWithRetry, without setLoading(true)
AuthStateChange ==
  /\ auth.call = "none"
  /\ auth.user # Null
  /\ auth' = Render([auth EXCEPT !.call = "listener", !.at = "profile"])
  /\ retry' = RetryStart("fetchProfileWithRetry")
  /\ AuthFrame

\* ------------------------------------------------------- reservation fee
\* Math.round of the rational n / d, n >= 0: halves go up
MathRound(n, d) == (2 * n + d) \div (2 * d)

\* ROUND(numeric) of n / d: halves go away from zero
SqlRound(n, d) ==
  IF n >= 0 THEN (2 * n + d) \div (2 * d)
  ELSE 0 - ((2 * (0 - n) + d) \div (2 * d))

\* utils/supabase calculateReservationFee: individualRent = totalRent /
\* totalSpaces, Math.round(individualRent * 0.01)
calculateReservationFee(totalRent, totalSpaces) ==
  LET individualRent == [n |-> totalRent, d |-> totalSpaces]
  IN MathRound(individualRent.n, individualRent.d * 100)

\* calcReservationFee with Math.floor in the place of Math.round
calcReservationFee_Floor(price, total) ==
  IF price = 0 \/ total = 0 THEN 0
  ELSE price \div (total * 100)

\* MultiStepPropertyForm calcReservationFee
calcReservationFee(price, total) ==
  IF price = 0 \/ total = 0 THEN 0
  ELSE LET individual == [n |-> price, d |-> total]
       IN MathRound(individual.n, individual.d * 100)

\* migration odd_wind: ROUND((price::numeric / total_rooms::numeric) * 0.01)
BackfillFee(price, total_rooms) == SqlRound(price, total_rooms * 100)

\* inputs of the fee calculator
FeePrices == (1..MaxPrice) \cup {SamplePrice}
FeeTotals == (1..MaxRooms) \cup {SampleTotalRooms}

\* a property with price and total_rooms is about to be listed and shown
InitFee ==
  /\ properties = [p \in Properties |-> NoProperty]
  /\ user = [c \in Clients |-> "s1"]
  /\ profile = [c \in Clients |-> "student"]
  /\ \E price \in FeePrices, total \in FeeTotals :
       fee = [NoFee EXCEPT !.price = price, !.total_rooms = total]
  /\ InitSessions

\* the listing form, the pages and the backfill each compute the fee
ComputeFee ==
  /\ fee.unlock = -1
  /\ fee' = [fee EXCEPT
               !.unlock = calculateReservationFee(fee.price, fee.total_rooms),
               !.listing = calcReservationFee(fee.price, fee.total_rooms),
               !.backfill = BackfillFee(fee.price, fee.total_rooms)]
  /\ UNCHANGED <<storeVars, pageVars, dashPaid, dashPending, refundLog, retry,
                 auth, hist>>

\* --------------------------------------------------------- specification
UnlockStep(c) ==
  \/ Mount(c)
  \/ HpFetchProperty(c)
  \/ FpUnlock(c)
  \/ Unmount(c)
  \/ OpenWidget(c)
  \/ WidgetClose(c)
  \/ PaymentSuccess(c)
  \/ DuplicateCallback(c)
  \/ HpInsert(c)
  \/ HpUpdate1(c)
  \/ HpRpc(c)
  \/ HpFresh(c)
  \/ HpUpdate2(c)

Next ==
  \/ \E c \in Clients : UnlockStep(c)
  \/ fetchReservations
  \/ RequestRefund
  \/ RequestRefundForeign
  \/ \E u \in Landlords, ra \in 0..MaxRooms, tr \in 1..MaxRooms :
       LandlordEdit(u, ra, tr)

Spec == Init /\ [][Next]_vars

\* unlock workflows only: no refund and no landlord edit
NextUnlock == \E c \in Clients : UnlockStep(c)

SpecUnlock == Init /\ [][NextUnlock]_vars

\* unlock workflows and the student dashboard: no landlord edit
NextRefund ==
  \/ \E c \in Clients : UnlockStep(c)
  \/ fetchReservations
  \/ RequestRefund
  \/ RequestRefundForeign

SpecRefund == Init /\ [][NextRefund]_vars

\* unlock workflows and landlord edits: no refund
NextEdit ==
  \/ \E c \in Clients : UnlockStep(c)
  \/ \E u \in Landlords, ra \in 0..MaxRooms, tr \in 1..MaxRooms :
       LandlordEdit(u, ra, tr)

SpecEdit == Init /\ [][NextEdit]_vars

\* any visitor on the property page and on the Explore page
NextView ==
  \/ \E c \in Clients : UnlockStep(c)
  \/ \E c \in Clients : CreateSampleProperty(c)

SpecView == InitView /\ [][NextView]_vars

\* visitors on the property page and the Explore page, and the landlord
\* dashboard creating and deleting the listing
NextCatalog ==
  \/ \E c \in Clients : UnlockStep(c)
  \/ \E c \in Clients : CreateSampleProperty(c)
  \/ \E u \in Landlords, ra \in 0..MaxRooms, tr \in 1..MaxRooms :
       LandlordCreate(u, ra, tr)
  \/ \E u \in Landlords : handleDeleteProperty(u)

SpecCatalog == InitView /\ [][NextCatalog]_vars

\* the retry loops of the read path, and the unlock workflow of a session
NextRetry ==
  \/ \E op \in RetryOps : StartRetry(op)
  \/ RetryStep
  \/ RetryReturn
  \/ UnlockStep("c1")

SpecRetry == Init /\ [][NextRetry]_vars

\* unlocks and refunds on a listing that starts with all rooms free
SpecConserve == InitFull /\ [][NextRefund]_vars

\* unlock workflows, and sessions that end while the page is on screen
NextSession ==
  \/ \E c \in Clients : UnlockStep(c)
  \/ \E c \in Clients : SignOut(c)
  \/ \E c \in Clients : Refetch(c)

SpecSession == Init /\ [][NextSession]_vars

\* nobody is signed in and no page of the store is open
InitAuth ==
  /\ properties = [p \in Properties |-> NoProperty]
  /\ user = [c \in Clients |-> Null]
  /\ profile = [c \in Clients |-> NoProfile]
  /\ fee = NoFee
  /\ InitSessions

\* the AuthProvider, ProtectedRoute and the dashboards' routing effect
NextAuth ==
  \/ \E r \in Routes : Visit(r)
  \/ DashboardEffect
  \/ CallRefreshAuth
  \/ RefreshSessionReturns
  \/ FetchProfileStep
  \/ \E u \in Accounts : CallSignUp(u)
  \/ SignUpReturns
  \/ ProfileInsertReturns
  \/ \E u \in Accounts : CallSignIn(u)
  \/ SignInReturns
  \/ CallSignOut
  \/ SignOutReturns
  \/ AuthStateChange

SpecAuth == InitAuth /\ [][NextAuth]_vars

\* the fee calculator
NextFee == ComputeFee

SpecFee == InitFee /\ [][NextFee]_vars

\* ================================================================ claims
RowsOf(s, p) == {r \in reservations : r.student_id = s /\ r.property_id = p}

\* C1: a single successful unlock (handlePaymentSuccess run to completion
\* by a student without a prior reservation, stored rooms_available r > 0,
\* nobody else changing the store) leaves rooms_available = r - 1, the
\* insert trigger and the client's own writes counted together.
C1_SingleUnlockDecrementsOnce ==
  \A c \in Clients :
    ( /\ pc[c] = "ready"
      /\ hist[c].calls = 1
      /\ hist[c].inserted
      /\ hist[c].clean
      /\ hist[c].r0 > 0 )
    => properties[property[c].id].rooms_available = hist[c].r0 - 1

\* C2: two calls of the unlock operation in sequence for the same
\* (student, property) give exactly one reservation row and exactly one
\* decrement of rooms_available.
C2_DuplicateCallbackIdempotent ==
  \A c \in Clients :
    ( /\ pc[c] = "ready"
      /\ hist[c].calls = 2
      /\ hist[c].inserted
      /\ hist[c].clean
      /\ hist[c].r0 > 0 )
    => /\ Cardinality(RowsOf(user[c], property[c].id)) = 1
       /\ properties[property[c].id].rooms_available = hist[c].r0 - 1

\* C3: N distinct students unlock concurrently against rooms_available =
\* k < N: exactly k decrements take effect (the counter ends at 0) and the
\* counter is never below 0.
C3_ConcurrentUnlocksDecrementK ==
  /\ \A p \in Properties : properties[p].rooms_available >= 0
  /\ ( /\ user["c1"] # user["c2"]
       /\ \A c \in Clients : /\ pc[c] = "ready"
                             /\ hist[c].calls = 1
                             /\ hist[c].inserted
       /\ hist["c1"].r0 = hist["c2"].r0
       /\ hist["c1"].r0 < Cardinality({user[c] : c \in Clients}) )
     => properties["p1"].rooms_available = 0

\* C4: every property row satisfies 0 <= rooms_available <= total_rooms in
\* every reachable state, after any unlocks, refunds and landlord edits.
C4_RoomCountWithinBounds ==
  \A p \in Properties :
    /\ 0 <= properties[p].rooms_available
    /\ properties[p].rooms_available <= properties[p].total_rooms

\* a landlord edit, an unlock and a refund have happened and the counter
\* sits at its upper bound
C4_Witness ==
  /\ edits > 0
  /\ \E r \in reservations : r.payment_status = "refunded"
  /\ properties["p1"].rooms_available = properties["p1"].total_rooms

\* C5: the ledger never holds two reservation rows for one (student,
\* property) pair, also when two sessions of the student both pass the
\* existence check before either inserts.
C5_OneReservationPerPair ==
  \A s \in Students, p \in Properties : Cardinality(RowsOf(s, p)) <= 1

\* a session's insert was rejected: it passed the existence check, the
\* other session of the same student inserted first
C5_Witness ==
  \E c \in Clients :
    /\ pc[c] = "ready"
    /\ hist[c].calls = 1
    /\ ~ hist[c].inserted
    /\ ~ isUnlocked[c]
    /\ RowsOf(user[c], property[c].id) # {}

Min(a, b) == IF a <= b THEN a ELSE b

\* C6: requestRefund on a paid reservation sets payment_status to refunded
\* and increments rooms_available by exactly 1, bounded at total_rooms.
C6_RefundIncrementsBounded ==
  [][\A r \in reservations :
       ( /\ r.id \in dashPaid
         /\ r.payment_status = "paid"
         /\ requestRefund(r.id) )
       => /\ [r EXCEPT !.payment_status = "refunded"] \in reservations'
          /\ properties'[r.property_id].rooms_available =
               Min(properties[r.property_id].rooms_available + 1,
                   properties[r.property_id].total_rooms)]_vars

C8_RefundKeepsUnlock ==
  [][/\ \A r \in reservations :
          \E q \in reservations' :
            q.id = r.id /\ q.unlock_granted = r.unlock_granted
     /\ \A c \in Clients :
          ( /\ FpUnlock(c)
            /\ \E r \in RowsOf(user[c], IdOf(c)) :
                 r.unlock_granted /\ r.payment_status = "refunded" )
          => isUnlocked'[c]]_vars

\* a page read after the refund shows the detailed location
C8_Witness ==
  \E c \in Clients :
    /\ pc[c] = "ready"
    /\ hist[c].seen = "refunded"
    /\ isUnlocked[c]
    /\ DetailedLocationShown(c)

\* C9: a student without a reservation with unlock_granted = true for the
\* property receives neither its detailed_location nor the landlord's
\* email and phone, in the data held by the client or on the page.
C9_NoDisclosureWithoutUnlock ==
  \A c \in Clients :
    (~ \E r \in RowsOf(user[c], IdOf(c)) : r.unlock_granted)
    => /\ property[c].detailed_location = ""
       /\ landlord[c].id = Null
       /\ ~ DetailedLocationShown(c)
       /\ ~ ContactShown(c)

\* C10: a student whose read of the property found their reservation with
\* unlock_granted = true is shown the detailed location and the landlord
\* contact, whatever rooms_available and payment_status are.
C10_DisclosureWithUnlock ==
  \A c \in Clients :
    (pc[c] = "ready" /\ hist[c].seen # "none")
    => /\ DetailedLocationShown(c)
       /\ ContactShown(c)

\* C11: a landlord reading their own property on the property page sees
\* all of its fields, detailed_location and the gated video included,
\* whether or not a reservation exists for it.
C11_LandlordSeesOwnProperty ==
  \A c \in Clients :
    ( /\ pc[c] = "ready"
      /\ Rendered(c)
      /\ user[c] # Null
      /\ profile[c] = "landlord"
      /\ property[c].landlord_id = user[c] )
    => /\ property[c].detailed_location # ""
       /\ property[c].video_url # ""
       /\ DetailedLocationShown(c)
       /\ VideoShown(c)

\* an anonymous visitor, or a signed-in one who neither owns the property
\* nor holds a reservation with unlock_granted for it
CrossTenant(c) ==
  \/ user[c] = Null
  \/ /\ property[c].landlord_id # user[c]
     /\ ~ \E r \in RowsOf(user[c], IdOf(c)) : r.unlock_granted

\* C12: an anonymous visitor, another landlord, or a signed-in user
\* without unlock (profile loaded or not) is shown a property only if it
\* is verified, and then without detailed location, landlord contact and
\* video.
C12_CrossTenantVerifiedOnly ==
  \A c \in Clients :
    (CrossTenant(c) /\ Rendered(c))
    => /\ property[c].is_verified
       /\ ~ DetailedLocationShown(c)
       /\ ~ ContactShown(c)
       /\ ~ VideoShown(c)

\* C13: a call of handlePaymentSuccess that ends without having inserted,
\* because the student's row exists already (found by the existence check,
\* or hit by the UNIQUE constraint after a concurrent duplicate), ends
\* unlocked and not with the failure toast.
C13_UniqueViolationIsAlreadyReserved ==
  \A c \in Clients :
    ( /\ pc[c] = "ready"
      /\ hist[c].calls >= 1
      /\ hist[c].out # "closed"
      /\ ~ hist[c].inserted
      /\ RowsOf(user[c], IdOf(c)) # {} )
    => /\ isUnlocked[c]
       /\ hist[c].out # "error"

\* C14: a payment that succeeds while the stored rooms_available is 0 (the
\* page was loaded before the last room went) still creates the
\* reservation with payment_status = paid and unlock_granted = true, the
\* row stays, and the student ends unlocked.
C14_OversellKeepsUnlock ==
  \A c \in Clients :
    ( /\ user["c1"] # user["c2"]
      /\ pc[c] = "ready"
      /\ hist[c].calls >= 1
      /\ hist[c].r0 = 0
      /\ hist[c].out \notin {"already", "closed"} )
    => /\ \E r \in RowsOf(user[c], IdOf(c)) :
            r.payment_status = "paid" /\ r.unlock_granted
       /\ isUnlocked[c]

\* the oversold unlock has completed
C14_Witness ==
  \E c \in Clients :
    /\ user["c1"] # user["c2"]
    /\ pc[c] = "ready"
    /\ hist[c].calls = 1
    /\ hist[c].r0 = 0
    /\ hist[c].ins0
    /\ hist[c].inserted
    /\ isUnlocked[c]
    /\ properties[IdOf(c)].rooms_available = 0

\* what the unlock call emits besides the success toast: the failure
\* toast, or the logged room update error
OversoldAlert(c) == hist[c].out = "error" \/ hist[c].updErr

\* C15: an unlock that completes for a property whose stored
\* rooms_available was 0 at the insert (the trigger's conditional decrement
\* matched no row) raises an oversold alert.
C15_OversellSurfaced ==
  \A c \in Clients :
    ( /\ pc[c] = "ready"
      /\ hist[c].calls >= 1
      /\ hist[c].inserted
      /\ hist[c].ins0 )
    => OversoldAlert(c)

\* C16: closing the payment widget without a success callback creates no
\* reservation and changes no property; only the loading flags of the
\* client are reset.
C16_CancelIsNoOp ==
  [][\A c \in Clients :
       WidgetClose(c)
       => /\ reservations' = reservations
          /\ properties' = properties
          /\ nextId' = nextId
          /\ property' = property
          /\ landlord' = landlord
          /\ isUnlocked' = isUnlocked
          /\ delivered' = delivered
          /\ loading' = loading
          /\ pageError' = pageError
          /\ fresh' = fresh
          /\ profile' = profile
          /\ ~ btnLoading'[c]
          /\ ~ paymentLoading'[c]]_vars

\* a widget has been closed without payment
C16_Witness ==
  \E c \in Clients :
    /\ pc[c] = "ready"
    /\ hist[c].out = "closed"
    /\ ~ delivered[c]
    /\ RowsOf(user[c], IdOf(c)) = {}

\* C17: a reservation is inserted, and rooms_available is decremented,
\* only by a session to which the payment widget has reported success for
\* that student and property.
C17_WritesAfterPaymentSuccess ==
  [][/\ \A r \in reservations' \ reservations :
          \E c \in Clients : /\ delivered[c]
                             /\ user[c] = r.student_id
                             /\ property[c].id = r.property_id
     /\ \A p \in Properties :
          properties'[p].rooms_available < properties[p].rooms_available
          => \E c \in Clients : delivered[c] /\ property[c].id = p]_vars

\* an unlock has inserted its row and decremented the counter
C17_Witness ==
  \E c \in Clients :
    /\ delivered[c]
    /\ hist[c].inserted
    /\ hist[c].clean
    /\ properties[IdOf(c)].rooms_available < hist[c].r0

\* C18: every step that changes rooms_available is a decrement by one of a
\* positive stored value or an increment by one of the stored value; no
\* step stores a value computed from an earlier read.
C18_AtomicCounterOnly ==
  [][\A p \in Properties :
       \/ properties'[p].rooms_available = properties[p].rooms_available
       \/ /\ properties[p].rooms_available > 0
          /\ properties'[p].rooms_available =
               properties[p].rooms_available - 1
       \/ properties'[p].rooms_available =
            properties[p].rooms_available + 1]_vars

\* round((price / total_rooms) * 0.01), halves up: the integer k with
\* k - 1/2 <= price / (100 * total_rooms) < k + 1/2
FeeSpec(price, total) ==
  CHOOSE k \in 0..price :
    /\ 100 * total * (2 * k - 1) <= 2 * price
    /\ 2 * price < 100 * total * (2 * k + 1)

\* C19: for positive price and total_rooms the three call sites
\* (calculateReservationFee, calcReservationFee, the SQL backfill) return
\* the same value, round((price / total_rooms) * 0.01) with halves up;
\* price 180000 and total_rooms 4 give 450.
C19_FeeAgreesAcrossCallSites ==
  fee.unlock # -1
  => /\ fee.unlock = FeeSpec(fee.price, fee.total_rooms)
     /\ fee.listing = fee.unlock
     /\ fee.backfill = fee.unlock
     /\ (fee.price = SamplePrice /\ fee.total_rooms = SampleTotalRooms)
          => fee.unlock = 450

\* a half has been rounded up: 150 / 1 * 0.01 = 1.5 gives 2
C19_Witness ==
  /\ fee.price = 150
  /\ fee.total_rooms = 1
  /\ fee.unlock = 2
  /\ fee.listing = 2
  /\ fee.backfill = 2

\* C20: handlePaymentSuccess and requestRefund are called only for a
\* principal whose profile role is student, and a property is written
\* (created or edited) only by a principal whose role is landlord.
C20_OperationsOnlyForRole ==
  [][/\ \A c \in Clients :
          (PaymentSuccess(c) \/ DuplicateCallback(c))
          => (user[c] # Null /\ profile[c] = "student")
     /\ (RequestRefund \/ RequestRefundForeign)
          => users[DashUser].role = "student"
     /\ \A u \in Landlords, ra \in 0..MaxRooms, tr \in 1..MaxRooms :
          LandlordEdit(u, ra, tr) => users[u].role = "landlord"
     /\ \A c \in Clients :
          CreateSampleProperty(c) => users[user[c]].role = "landlord"]_vars

\* C21: every property row created through the application (landlord form,
\* sample-property action of the Explore page) has is_verified = false
\* right after its creation, and no client operation turns is_verified to
\* true.
C21_CreatedUnverified ==
  [][\A p \in Properties :
       properties'[p].is_verified => properties[p].is_verified]_vars

\* C22: a reservation row is never deleted: every reservation of a state
\* is still in the ledger after the next step (a refund changes only its
\* payment_status).
C22_ReservationNeverDeleted ==
  [][\A r \in reservations :
       \E q \in reservations' : q.id = r.id]_vars

\* the widget is open, or the handlePaymentSuccess started by its success
\* callback has not finished
InFlight(c) ==
  pc[c] \in {"widget", "hp_insert", "hp_update1", "hp_rpc", "hp_fresh",
             "hp_update2", "hp_fp_prop", "hp_fp_unlock"}

\* <button disabled={disabled || loading}> with disabled={paymentLoading}
ButtonDisabled(c) == paymentLoading[c] \/ btnLoading[c]

Increasing(s) == \A k \in 1..(Len(s) - 1) : s[k] < s[k + 1]

\* C24: a call of testConnection, getSessionWithRetry or
\* fetchProfileWithRetry makes at most 3 attempts, stops at the first
\* answer, waits strictly longer before each further attempt, and ends with
\* a definite outcome (failure only after the third attempt); a
\* payment-success callback issues the reservation insert at most once.
C24_BoundedRetries ==
  /\ [](/\ retry.attempts <= 3
        /\ Increasing(retry.delays)
        /\ retry.out = "running"
             => (retry.attempts < 3 /\ retry.attempts = retry.i)
        /\ retry.out \in {"success", "notfound"}
             => (retry.attempts = retry.i + 1
                 /\ Len(retry.delays) = retry.i)
        /\ retry.out = "failure" => retry.attempts = 3)
  /\ [][\A c \in Clients :
          /\ (pc'[c] = "hp_insert" /\ pc[c] # "hp_insert")
               => (PaymentSuccess(c) \/ DuplicateCallback(c))
          /\ (pc[c] = "hp_insert" /\ pc'[c] # pc[c])
               => pc'[c] \in {"hp_update1", "ready"}]_vars

\* a loop has failed three times, having waited 1000 and then 2000 ms
C24_Witness ==
  /\ retry.op = "fetchProfileWithRetry"
  /\ retry.out = "failure"
  /\ retry.attempts = 3
  /\ retry.delays = <<1000, 2000>>

\* C25: whenever handlePaymentSuccess inserts a reservation, the property
\* held in the page state is verified, in every ordering of the profile
\* load and the property fetch.
C25_InsertOnlyForVerified ==
  [][\A c \in Clients :
       (HpInsert(c) /\ reservations' # reservations)
       => property[c].is_verified]_vars

\* C26: in any interleaving of unlock workflows of different students on
\* the property, without refunds and landlord edits, no step increases the
\* stored rooms_available.
C26_UnlockNeverIncreases ==
  [][user["c1"] # user["c2"]
     => \A p \in Properties :
          properties'[p].rooms_available <= properties[p].rooms_available]_vars

\* no workflow is in flight
Quiescent ==
  /\ \A c \in Clients : pc[c] \in {"unmounted", "ready"}
  /\ ~ dashPending

\* the reservations of property p with payment_status = paid
PaidRows(p) ==
  {r \in reservations : r.property_id = p /\ r.payment_status = "paid"}

\* C27: for a property that started with r0 rooms available (here all of
\* its total_rooms), without landlord edits and with at most r0 students
\* unlocking, every quiescent state has rooms_available = r0 - (number of
\* its paid reservations).
C27_InventoryConservation ==
  \A p \in Properties :
    ( /\ Quiescent
      /\ Cardinality({r \in reservations : r.property_id = p})
           <= properties[p].total_rooms )
    => properties[p].rooms_available =
         properties[p].total_rooms - Cardinality(PaidRows(p))

\* C28: whenever the page is at rest with isUnlocked = true, a user is
\* signed in and holds a reservation with unlock_granted = true for the
\* displayed property; the flag is not left over from an earlier user.
C28_UnlockedFlagNotStale ==
  \A c \in Clients :
    (pc[c] = "ready" /\ isUnlocked[c])
    => /\ user[c] # Null
       /\ \E r \in reservations : /\ r.student_id = user[c]
                                   /\ r.property_id = IdOf(c)
                                   /\ r.unlock_granted

\* C29: when a call of refreshAuth, signUp, signIn or signOut (and the
\* listener run a successful sign-in starts) is over, loading is false,
\* whatever the identity provider answered.
C29_AuthLoadingResolves ==
  auth.call = "none" => ~ auth.loading

\* C30: with a user but no profile, the dashboards' routing effect does
\* not keep calling refreshAuth: ProtectedRoute navigates away before the
\* dashboard is mounted, the effect's refreshAuth branch is never taken,
\* and once the auth calls are over the client is not on a dashboard
\* route.
C30_RecoveryLoopTerminates ==
  /\ auth.effectRefresh = 0
  /\ ( /\ auth.user # Null
       /\ auth.profile = NoProfile
       /\ auth.call = "none"
       /\ ~ auth.loading )
     => auth.route \notin Dashboards

\* a signed-in user without a profile asked for a dashboard and was sent
\* to /explore
C30_Witness ==
  /\ auth.user # Null
  /\ auth.profile = NoProfile
  /\ auth.call = "none"
  /\ ~ auth.loading
  /\ auth.from \in Dashboards
  /\ auth.route = "/explore"

====
